---- MODULE Spec2Model ----
(***************************************************************************)
(* jeriDB hybrid retrieval engine: the Express routes of                   *)
(* backend/src/routes/hybrid.js over the LanceDB vector store (VectorDB)   *)
(* and the Neo4j graph store (Neo4jDB).                                    *)
(*                                                                         *)
(* Conventions for JavaScript values:                                      *)
(*   - an optional value is a tuple of length <= 1: <<>> is undefined,     *)
(*     <<v>> is the value v;                                               *)
(*   - a text is a sequence of one-character strings;                      *)
(*   - ids and type names are TLA+ strings (atoms);                        *)
(*   - a number is [t |-> "num", n |-> k] with k in tenths (0.7 is 7), a   *)
(*     non-numeric string value is [t |-> "str", n |-> 0];                 *)
(*   - similarities and weights are in tenths, fused scores in hundredths. *)
(***************************************************************************)
EXTENDS Integers, Sequences, FiniteSets, TLC

VARIABLES
    table,      \* VectorDB.table: the LanceDB rows, in insertion order
    gnodes,     \* Neo4j (:Node) by id: its type property, or NoNode
    gedges,     \* Neo4j relationships: records source, target, type, weight
    req,        \* the request being answered (endpoint and body)
    calls,      \* the store calls the handler issued for req, in order
    route,      \* routeDecision of POST /ingest, "" when none was computed
    resp,       \* the response sent for req
    writes      \* number of write requests served so far

vars == <<table, gnodes, gedges, req, calls, route, resp, writes>>

-----------------------------------------------------------------------------
(* Bounds of the model *)

MaxWrites == 2      \* write requests served in one behaviour
MaxTopK == 2        \* largest top_k of a search request

-----------------------------------------------------------------------------
(* JavaScript values *)

Undefined == <<>>
Some(v) == <<v>>
IsDef(m) == Len(m) = 1

Num(k) == [t |-> "num", n |-> k]
NotANumber == [t |-> "str", n |-> 0]

\* truthiness of an optional text, atom, list, number
TruthyText(m) == IsDef(m) /\ Len(m[1]) > 0
TruthyAtom(m) == IsDef(m) /\ m[1] # ""
TruthyList(m) == IsDef(m)
TruthyNum(m) == IsDef(m) /\ (m[1].t = "str" \/ m[1].n # 0)
\* data.nodes?.length
TruthyLength(m) == IsDef(m) /\ Len(m[1]) > 0

\* w < k and w > k for a JavaScript value w: a non-numeric string compares false
JsLess(w, k) == w.t = "num" /\ w.n < k
JsGreater(w, k) == w.t = "num" /\ w.n > k

-----------------------------------------------------------------------------
(* Texts *)

RECURSIVE Rep(_, _)
Rep(c, n) == IF n = 0 THEN <<>> ELSE <<c>> \o Rep(c, n - 1)

IsSpace(c) == c \in {" ", "\t"}
IsWord(c) == c \in {"a", "b", "s", "h", "o", "r", "t", "i", "n", "_"}
IsKeptPunct(c) == c \in {".", ",", "!", "?"}

\* s.replace(/\s+/g, ' ')
RECURSIVE CollapseWhitespace(_)
CollapseWhitespace(s) ==
    IF s = <<>> THEN <<>>
    ELSE IF IsSpace(Head(s))
         THEN IF Len(s) > 1 /\ IsSpace(s[2])
              THEN CollapseWhitespace(Tail(s))
              ELSE <<" ">> \o CollapseWhitespace(Tail(s))
         ELSE <<Head(s)>> \o CollapseWhitespace(Tail(s))

\* s.replace(/[^\w\s.,!?]/g, '')
StripDisallowed(s) == SelectSeq(s, LAMBDA c : IsWord(c) \/ IsSpace(c) \/ IsKeptPunct(c))

RECURSIVE TrimLeft(_)
TrimLeft(s) == IF s # <<>> /\ IsSpace(Head(s)) THEN TrimLeft(Tail(s)) ELSE s

RECURSIVE TrimRight(_)
TrimRight(s) ==
    IF s # <<>> /\ IsSpace(s[Len(s)]) THEN TrimRight(SubSeq(s, 1, Len(s) - 1)) ELSE s

\* s.trim()
Trim(s) == TrimRight(TrimLeft(s))

MinCleanLength == 10

\* the chain of hybrid.js:47-50
CleanText(s) == Trim(StripDisallowed(CollapseWhitespace(s)))

-----------------------------------------------------------------------------
(* Schema Validator: TRUE when the check returns, FALSE when it throws *)

NodeTypes == {"person", "org", "document", "concept", "healthcare_ai", "medical_ml", "test"}
EdgeTypes == {"USES", "MENTIONS", "CREATED", "RELATED", "DEPLOYED"}

\* data: [id, text, mtype], mtype being data.metadata?.type
validateNodeSchema(data) ==
    /\ TruthyAtom(data.id)
    /\ TruthyText(data.text)
    /\ ~(TruthyAtom(data.mtype) /\ data.mtype[1] \notin NodeTypes)

\* data: [source, target, type, weight]
validateEdgeSchema(data) ==
    /\ TruthyAtom(data.source)
    /\ TruthyAtom(data.target)
    /\ TruthyAtom(data.type)
    /\ data.type[1] \in EdgeTypes
    /\ ~(TruthyNum(data.weight)
         /\ (JsLess(data.weight[1], 0) \/ JsGreater(data.weight[1], 10)))

-----------------------------------------------------------------------------
(* Ingestion Router *)

\* data.text?.trim() is falsy
BlankText(m) == ~IsDef(m) \/ Trim(m[1]) = <<>>

\* data.text || data.content || data.title || data.description || ''
FirstTruthyText(data) ==
    IF TruthyText(data.text) THEN data.text[1]
    ELSE IF TruthyText(data.content) THEN data.content[1]
    ELSE IF TruthyText(data.title) THEN data.title[1]
    ELSE IF TruthyText(data.description) THEN data.description[1]
    ELSE <<>>

\* cleanData without the minimum length of the cleaned text
cleanData_NoMinLength(data) ==
    IF TruthyLength(data.nodes) \/ TruthyLength(data.edges) THEN Some(data)
    ELSE IF BlankText(data.text) /\ BlankText(data.content) /\ BlankText(data.title)
         THEN Undefined
    ELSE Some([data EXCEPT !.text = Some(CleanText(FirstTruthyText(data)))])

\* cleanData that cleans and never rejects
cleanData_NeverRejects(data) ==
    IF TruthyLength(data.nodes) \/ TruthyLength(data.edges) THEN Some(data)
    ELSE Some([data EXCEPT !.text = Some(CleanText(FirstTruthyText(data)))])

\* Undefined stands for the null that rejects the payload
cleanData(data) ==
    IF TruthyLength(data.nodes) \/ TruthyLength(data.edges) THEN Some(data)
    ELSE IF BlankText(data.text) /\ BlankText(data.content) /\ BlankText(data.title)
         THEN Undefined
    ELSE IF Len(CleanText(FirstTruthyText(data))) < MinCleanLength THEN Undefined
    ELSE Some([data EXCEPT !.text = Some(CleanText(FirstTruthyText(data)))])

hasText(data) ==
    \/ TruthyText(data.text)
    \/ TruthyText(data.content)
    \/ TruthyText(data.title)
    \/ TruthyText(data.description)

\* hasRelationships with data.nodes || data.edges in place of their lengths
hasRelationships_ListsPresent(data) ==
    \/ TruthyList(data.nodes)
    \/ TruthyList(data.edges)
    \/ TruthyList(data.relationships)
    \/ TruthyAtom(data.parent_id)
    \/ TruthyList(data.children)

hasRelationships(data) ==
    \/ TruthyLength(data.nodes)
    \/ TruthyLength(data.edges)
    \/ TruthyList(data.relationships)
    \/ TruthyAtom(data.parent_id)
    \/ TruthyList(data.children)

decideRoute(data) ==
    IF hasText(data) /\ hasRelationships(data) THEN "BOTH"
    ELSE IF hasText(data) THEN "VECTOR_ONLY"
    ELSE IF hasRelationships(data) THEN "GRAPH_ONLY"
    ELSE "METADATA_ONLY"

-----------------------------------------------------------------------------
(* The two stores.  A store value is [table, gnodes, gedges]. *)

NoNode == "<no node>"

\* the placeholder row of VectorDB.ensureTable
InitRow == [id |-> Some("init"), text |-> <<"i", "n", "i", "t">>]

\* Store calls of a handler: [op, ...arguments].  step is the backend
\* operation of the call that fails (0: none): table.add, table.delete,
\* table.optimize, session.run.

\* VectorDB.addDocument: generateEmbedding reads text.length, so an undefined
\* text throws before table.add
addDocument(st, c, step) ==
    IF ~IsDef(c.text) \/ step = 1
    THEN [st |-> st, threw |-> TRUE, ret |-> FALSE]
    ELSE [st |-> [st EXCEPT !.table = Append(@, [id |-> c.id, text |-> c.text[1]])],
          threw |-> FALSE, ret |-> TRUE]

\* VectorDB.deleteDocument: table.delete(`id = "${id}"`), table.optimize; every
\* error is caught and answered with false
deleteDocument(st, c, step) ==
    LET kept == SelectSeq(st.table, LAMBDA r : r.id # Some(c.id))
    IN  IF step = 1 THEN [st |-> st, threw |-> FALSE, ret |-> FALSE]
        ELSE [st |-> [st EXCEPT !.table = kept], threw |-> FALSE,
              ret |-> (step # 2 /\ Len(kept) < Len(st.table))]

\* VectorDB.updateDocument: deleteDocument, then addDocument
updateDocument(st, c, step) ==
    LET del == deleteDocument(st, c, step)
    IN  addDocument(del.st, [op |-> "addDocument", id |-> Some(c.id), text |-> c.text],
                    IF step = 3 THEN 1 ELSE 0)

\* Neo4jDB.addNode: MERGE (n:Node {id}) SET n.type = nodeData.type || 'unknown',
\* n += nodeData.  MERGE on a null id is an error of the store.
addNode(st, c, step) ==
    IF ~IsDef(c.id) \/ step = 1
    THEN [st |-> st, threw |-> TRUE, ret |-> FALSE]
    ELSE [st |-> [st EXCEPT !.gnodes[c.id[1]] =
                        IF IsDef(c.type) THEN c.type[1] ELSE "unknown"],
          threw |-> FALSE, ret |-> TRUE]

\* Neo4jDB.addEdge(source, target, type, weight = 1): MATCH both nodes, MERGE
\* the relationship; the type is spliced into the query text
addEdge(st, c, step) ==
    LET edge == [source |-> c.source, target |-> c.target,
                 type |-> IF IsDef(c.type) THEN c.type[1] ELSE "undefined",
                 weight |-> IF IsDef(c.weight) THEN c.weight[1] ELSE Num(10)]
        found == /\ IsDef(c.source) /\ IsDef(c.target)
                 /\ c.source[1] \in DOMAIN st.gnodes /\ st.gnodes[c.source[1]] # NoNode
                 /\ c.target[1] \in DOMAIN st.gnodes /\ st.gnodes[c.target[1]] # NoNode
    IN  IF step = 1 THEN [st |-> st, threw |-> TRUE, ret |-> FALSE]
        ELSE IF found
             THEN [st |-> [st EXCEPT !.gedges = @ \cup {edge}], threw |-> FALSE, ret |-> TRUE]
             ELSE [st |-> st, threw |-> FALSE, ret |-> FALSE]

\* graphDB.session.run('MATCH (n:Node {id: $id}) DETACH DELETE n')
detachDelete(st, c, step) ==
    IF step = 1 THEN [st |-> st, threw |-> TRUE, ret |-> FALSE]
    ELSE [st |-> [st EXCEPT !.gnodes[c.id] = NoNode,
                            !.gedges = {e \in @ : e.source # Some(c.id) /\ e.target # Some(c.id)}],
          threw |-> FALSE, ret |-> TRUE]

StoreCall(st, c, step) ==
    CASE c.op = "addDocument" -> addDocument(st, c, step)
      [] c.op = "deleteDocument" -> deleteDocument(st, c, step)
      [] c.op = "updateDocument" -> updateDocument(st, c, step)
      [] c.op = "addNode" -> addNode(st, c, step)
      [] c.op = "addEdge" -> addEdge(st, c, step)
      [] c.op = "detachDelete" -> detachDelete(st, c, step)

VectorOps == {"addDocument", "deleteDocument", "updateDocument", "search"}
GraphOps == {"addNode", "addEdge", "detachDelete", "graphSearch"}

\* RunCalls that goes on to the next call after one that throws
RECURSIVE RunCalls_KeepGoing(_, _, _, _, _)
RunCalls_KeepGoing(st, plan, i, fail, log) ==
    IF i > Len(plan)
    THEN [st |-> st, log |-> log, threw |-> \E k \in 1..Len(log) : log[k].threw]
    ELSE LET r == StoreCall(st, plan[i], IF fail.call = i THEN fail.step ELSE 0)
             entry == [call |-> plan[i], threw |-> r.threw, ret |-> r.ret,
                       failed |-> fail.call = i]
         IN  RunCalls_KeepGoing(r.st, plan, i + 1, fail, Append(log, entry))

\* the awaited calls of a handler body, one after the other, up to the first
\* one that throws; fail = [call, step] names the backend failure injected,
\* and the log entry of that call is marked failed
RECURSIVE RunCalls(_, _, _, _, _)
RunCalls(st, plan, i, fail, log) ==
    IF i > Len(plan) THEN [st |-> st, log |-> log, threw |-> FALSE]
    ELSE LET r == StoreCall(st, plan[i], IF fail.call = i THEN fail.step ELSE 0)
             entry == [call |-> plan[i], threw |-> r.threw, ret |-> r.ret,
                       failed |-> fail.call = i]
         IN  IF r.threw
             THEN [st |-> r.st, log |-> Append(log, entry), threw |-> TRUE]
             ELSE RunCalls(r.st, plan, i + 1, fail, Append(log, entry))

Stores == [table |-> table, gnodes |-> gnodes, gedges |-> gedges]

NoFail == [call |-> 0, step |-> 0]
\* the failures that can be injected into a plan: one backend step of one call
Steps(c) == IF c.op = "updateDocument" THEN 1..3
            ELSE IF c.op = "deleteDocument" THEN 1..2 ELSE {1}
Failures(plan) ==
    {NoFail} \cup UNION {{[call |-> i, step |-> k] : k \in Steps(plan[i])} : i \in 1..Len(plan)}

\* a handler that ran its plan: the stores, the call log and the response
Finish(request, r, rt, okBody) ==
    /\ table' = r.st.table
    /\ gnodes' = r.st.gnodes
    /\ gedges' = r.st.gedges
    /\ req' = request
    /\ calls' = r.log
    /\ route' = rt
    /\ resp' = IF r.threw THEN [status |-> 500] ELSE okBody
    /\ writes' = writes + 1

\* a handler that answered before any store call
Refuse(request, status) ==
    /\ req' = request
    /\ calls' = <<>>
    /\ route' = ""
    /\ resp' = [status |-> status]
    /\ writes' = writes + 1
    /\ UNCHANGED <<table, gnodes, gedges>>

-----------------------------------------------------------------------------
(* Request bodies *)

Ids == {"a", "b", "constructor"}

TShort == <<"s", "h", "o", "r", "t">>
TBlank == <<" ", "\t">>
T9 == Rep("a", 9)
T10 == Rep("a", 10)
TLong == Rep("a", 12)
\* 11 characters, 9 once the two '#' are stripped
TSym == Rep("a", 5) \o <<"#", "#">> \o Rep("a", 4)
\* 14 characters, 10 once the whitespace runs are collapsed and trimmed
TRun == <<" ">> \o Rep("a", 4) \o <<" ", "\t", " ">> \o Rep("a", 5) \o <<" ">>
\* 11 characters; stripping '#' after collapsing leaves two spaces: 10
THole == Rep("a", 4) \o <<" ", "#", " ">> \o Rep("a", 4)

NodeBodies ==
    [id : {Undefined} \cup {Some(i) : i \in Ids},
     text : {Undefined, Some(TShort), Some(TLong)},
     mtype : {Undefined, Some("person"), Some("alien")}]

Weights == {Undefined, Some(Num(0)), Some(Num(5)), Some(Num(10)), Some(Num(15)),
            Some(Num(-5)), Some(NotANumber)}

EdgeBodies ==
    [source : {Undefined, Some("a")},
     target : {Some("b")},
     type : {Undefined, Some("USES"), Some("FRIEND")},
     weight : Weights]

UpdateBodies ==
    [text : {Undefined, Some(TLong)},
     mtype : {Undefined, Some("person"), Some("alien")}]

\* nodes and edges of an ingest payload
NodeA == [id |-> Some("a"), type |-> Undefined]
NodeB == [id |-> Some("b"), type |-> Some("alien")]
EdgeOk == [from |-> Some("a"), to |-> Some("b"), type |-> Some("USES"), weight |-> Undefined]
EdgeHalf == [from |-> Some("a"), to |-> Some("b"), type |-> Some("RELATED"), weight |-> Some(Num(5))]
EdgeBad == [from |-> Some("a"), to |-> Some("b"), type |-> Some("FRIEND"), weight |-> Some(Num(15))]

AllPayloads ==
    [id : {Undefined, Some("a")},
     text : {Undefined, Some(TBlank), Some(TShort), Some(THole)},
     content : {Undefined, Some(TShort), Some(TLong), Some(TSym)},
     title : {Undefined, Some(TRun), Some(T9)},
     description : {Undefined, Some(TLong)},
     nodes : {Undefined, Some(<<>>), Some(<<NodeA>>), Some(<<NodeA, NodeB>>)},
     edges : {Undefined, Some(<<>>), Some(<<EdgeOk>>), Some(<<EdgeBad, EdgeHalf>>)},
     relationships : {Undefined, Some(<<>>)},
     parent_id : {Undefined, Some(""), Some("p")},
     children : {Undefined, Some(<<>>)}]

Fields == {"id", "text", "content", "title", "description", "nodes", "edges",
           "relationships", "parent_id", "children"}

NoFields == [f \in Fields |-> Undefined]

\* the payloads POST /ingest is driven with: those giving at most one field,
\* and some giving two
IngestPayloads ==
    {p \in AllPayloads : Cardinality({f \in Fields : IsDef(p[f])}) <= 1}
    \cup {[NoFields EXCEPT !.text = Some(TBlank), !.content = Some(TLong)],
          [NoFields EXCEPT !.text = Some(TShort), !.description = Some(TLong)],
          [NoFields EXCEPT !.title = Some(T9), !.description = Some(TLong)],
          [NoFields EXCEPT !.id = Some("a"), !.content = Some(TLong)],
          [NoFields EXCEPT !.content = Some(TLong), !.nodes = Some(<<>>)],
          [NoFields EXCEPT !.content = Some(TLong), !.parent_id = Some("p")],
          [NoFields EXCEPT !.title = Some(TRun), !.nodes = Some(<<NodeA>>)],
          [NoFields EXCEPT !.text = Some(THole), !.nodes = Some(<<NodeA>>)],
          [NoFields EXCEPT !.nodes = Some(<<NodeA, NodeB>>), !.edges = Some(<<EdgeOk>>)],
          [NoFields EXCEPT !.nodes = Some(<<NodeA, NodeB>>),
                           !.edges = Some(<<EdgeBad, EdgeHalf>>)]}

-----------------------------------------------------------------------------
(* Write endpoints *)

\* router.post('/nodes')
CreateNode(body) ==
    LET request == [ep |-> "POST /nodes", body |-> body]
        plan == <<[op |-> "addDocument", id |-> body.id, text |-> body.text],
                  [op |-> "addNode", id |-> body.id, type |-> body.mtype]>>
    IN  /\ writes < MaxWrites
        /\ IF ~validateNodeSchema(body) THEN Refuse(request, 500)
           ELSE IF ~TruthyAtom(body.id) \/ ~TruthyText(body.text) THEN Refuse(request, 400)
           ELSE \E f \in Failures(plan) :
                  Finish(request, RunCalls(Stores, plan, 1, f, <<>>), "", [status |-> 200])

\* router.post('/edges')
CreateEdge(body) ==
    LET request == [ep |-> "POST /edges", body |-> body]
        plan == <<[op |-> "addEdge", source |-> body.source, target |-> body.target,
                   type |-> body.type,
                   weight |-> IF IsDef(body.weight) THEN body.weight ELSE Some(Num(10))]>>
    IN  /\ writes < MaxWrites
        /\ IF ~validateEdgeSchema(body) THEN Refuse(request, 500)
           ELSE IF ~TruthyAtom(body.source) \/ ~TruthyAtom(body.target) \/ ~TruthyAtom(body.type)
                THEN Refuse(request, 400)
           ELSE \E f \in Failures(plan) :
                  Finish(request, RunCalls(Stores, plan, 1, f, <<>>), "", [status |-> 200])

\* the dispatch of router.post('/ingest') for a cleaned payload and its route
IngestPlan(cleaned, rt) ==
    LET vec == IF rt \in {"VECTOR_ONLY", "BOTH"}
               THEN <<[op |-> "addDocument", id |-> cleaned.id, text |-> cleaned.text]>>
               ELSE <<>>
        ns == IF rt \in {"GRAPH_ONLY", "BOTH"} /\ TruthyList(cleaned.nodes)
              THEN [i \in 1..Len(cleaned.nodes[1]) |->
                      [op |-> "addNode", id |-> cleaned.nodes[1][i].id,
                       type |-> cleaned.nodes[1][i].type]]
              ELSE <<>>
        es == IF rt \in {"GRAPH_ONLY", "BOTH"} /\ TruthyList(cleaned.edges)
              THEN [i \in 1..Len(cleaned.edges[1]) |->
                      [op |-> "addEdge", source |-> cleaned.edges[1][i].from,
                       target |-> cleaned.edges[1][i].to,
                       type |-> cleaned.edges[1][i].type,
                       weight |-> cleaned.edges[1][i].weight]]
              ELSE <<>>
    IN  vec \o ns \o es

\* router.post('/ingest')
Ingest(data) ==
    LET request == [ep |-> "POST /ingest", body |-> data]
        cleaned == cleanData(data)
        rt == decideRoute(cleaned[1])
        plan == IngestPlan(cleaned[1], rt)
    IN  /\ writes < MaxWrites
        /\ IF ~IsDef(cleaned) THEN Refuse(request, 400)
           ELSE \E f \in Failures(plan) :
                  Finish(request, RunCalls(Stores, plan, 1, f, <<>>), rt,
                          [status |-> 200, routed_to |-> rt])

\* router.put('/nodes/:id')
UpdateNode(id, body) ==
    LET request == [ep |-> "PUT /nodes/:id", id |-> id, body |-> body]
        plan == <<[op |-> "updateDocument", id |-> id, text |-> body.text],
                  [op |-> "addNode", id |-> Some(id), type |-> body.mtype]>>
    IN  /\ writes < MaxWrites
        /\ \E f \in Failures(plan) :
             Finish(request, RunCalls(Stores, plan, 1, f, <<>>), "", [status |-> 200])

\* router.delete('/nodes/:id')
DeleteNode(id) ==
    LET request == [ep |-> "DELETE /nodes/:id", id |-> id]
        plan == <<[op |-> "deleteDocument", id |-> id], [op |-> "detachDelete", id |-> id]>>
    IN  /\ writes < MaxWrites
        /\ \E f \in Failures(plan) :
             Finish(request, RunCalls(Stores, plan, 1, f, <<>>), "", [status |-> 200])

-----------------------------------------------------------------------------
(* Vector search: VectorDB.search *)

\* _distance of a returned row, in tenths
DistVals == {2, 4}

\* NearestRows without the limit: every row of the table, nearest first
NearestRows_NoLimit(tbl, topK) ==
    LET m == Len(tbl)
    IN  {[i \in 1..m |-> [id |-> tbl[sel[i]].id, text |-> tbl[sel[i]].text, distance |-> d[i]]] :
            <<sel, d>> \in
              {x \in [1..m -> 1..Len(tbl)] \X [1..m -> DistVals] :
                  /\ \A i, j \in 1..m : i < j =>
                        /\ x[1][i] # x[1][j]
                        /\ x[2][i] <= x[2][j]
                        /\ tbl[x[1][i]].text = tbl[x[1][j]].text => x[2][i] = x[2][j]}}

\* table.search(queryEmbedding).limit(topK).toArray(): the topK nearest rows,
\* nearest first.  The distances are those of the embedding space, which the
\* model leaves open: any choice of rows in any order with non-decreasing
\* distances, rows of equal text at equal distance.
NearestRows(tbl, topK) ==
    LET m == IF topK < Len(tbl) THEN topK ELSE Len(tbl)
    IN  {[i \in 1..m |-> [id |-> tbl[sel[i]].id, text |-> tbl[sel[i]].text, distance |-> d[i]]] :
            <<sel, d>> \in
              {x \in [1..m -> 1..Len(tbl)] \X [1..m -> DistVals] :
                  /\ \A i, j \in 1..m : i < j =>
                        /\ x[1][i] # x[1][j]
                        /\ x[2][i] <= x[2][j]
                        /\ tbl[x[1][i]].text = tbl[x[1][j]].text => x[2][i] = x[2][j]}}

MinHitTextLength == 10

\* formattedResults of VectorDB.search: map to hits, rank = index + 1, then
\* filter out the placeholder row, rows without an id and short texts
FormatResults(rows) ==
    LET hits == [i \in 1..Len(rows) |->
                    [rank |-> i, docId |-> rows[i].id, text |-> rows[i].text,
                     similarity |-> 10 - rows[i].distance]]
    IN  SelectSeq(hits, LAMBDA r :
            /\ IsDef(r.docId)
            /\ r.docId # Some("init")
            /\ r.docId # Some("")
            /\ r.text # InitRow.text
            /\ Len(r.text) > MinHitTextLength)

-----------------------------------------------------------------------------
(* Graph keyword search: graphSearch of hybrid.js *)

GraphMatchLimit == 10
\* 0.9, in tenths
GraphMatchScore == 9

\* n.id CONTAINS $query OR toLower(n.name) CONTAINS $query OR
\* toLower(n.type) CONTAINS $query; name is the id.  No id, type or query of
\* the model is a proper substring of another, so CONTAINS is equality here.
MatchingNodes(st, q) ==
    {i \in DOMAIN st.gnodes : st.gnodes[i] # NoNode /\ (i = q \/ st.gnodes[i] = q)}

\* the possible answers of the query: LIMIT 10 keeps any 10 of the matches
graphSearch(st, q) ==
    LET all == MatchingNodes(st, q)
    IN  IF Cardinality(all) <= GraphMatchLimit THEN {all}
        ELSE {m \in SUBSET all : Cardinality(m) = GraphMatchLimit}

-----------------------------------------------------------------------------
(* Score fusion: mergeResults of hybrid.js *)

\* property names every plain object inherits from Object.prototype
ObjectPrototypeKeys == {"constructor", "toString", "valueOf", "hasOwnProperty", "__proto__"}

\* graphBoost[docId] || 0 on the plain object graphScoreBoost = {}: an own
\* property is the boost, an inherited one is a function or object (truthy,
\* not a number), anything else is undefined and becomes 0
BoostLookup(graphBoost, docId) ==
    IF docId \in DOMAIN graphBoost
    THEN Num(graphBoost[docId])
    ELSE IF docId \in ObjectPrototypeKeys THEN NotANumber
    ELSE Num(0)

\* (r.similarity * vectorWeight) + graphScore: number + non-number is a string
HybridScore(r, graphBoost, vectorWeight) ==
    LET graphScore == BoostLookup(graphBoost, r.docId[1])
    IN  IF graphScore.t = "num"
        THEN Num(r.similarity * vectorWeight + graphScore.n)
        ELSE NotANumber

ScoreHits(vectorResults, graphBoost, vectorWeight) ==
    [i \in 1..Len(vectorResults) |->
        [rank |-> vectorResults[i].rank, docId |-> vectorResults[i].docId,
         text |-> vectorResults[i].text, similarity |-> vectorResults[i].similarity,
         hybrid_score |-> HybridScore(vectorResults[i], graphBoost, vectorWeight)]]

\* the comparator (a, b) => b.hybrid_score - a.hybrid_score puts a before b
\* only when the difference is a negative number; NaN counts as 0
Before(a, b) ==
    a.hybrid_score.t = "num" /\ b.hybrid_score.t = "num" /\ b.hybrid_score.n < a.hybrid_score.n

\* stable insertion of hit h into the sorted sequence s
RECURSIVE InsertHit(_, _)
InsertHit(s, h) ==
    IF s = <<>> THEN <<h>>
    ELSE IF Before(h, Head(s)) THEN <<h>> \o s
    ELSE <<Head(s)>> \o InsertHit(Tail(s), h)

RECURSIVE StableSort(_)
StableSort(s) ==
    IF s = <<>> THEN <<>>
    ELSE InsertHit(StableSort(SubSeq(s, 1, Len(s) - 1)), s[Len(s)])

Reorderings(s) ==
    {[i \in 1..Len(s) |-> s[p[i]]] :
        p \in {q \in [1..Len(s) -> 1..Len(s)] : \A i, j \in 1..Len(s) : i # j => q[i] # q[j]}}

\* the comparator is a consistent order unless a non-number score (equal to
\* everything) sits among numbers that differ
ConsistentComparator(s) ==
    \/ \A i \in 1..Len(s) : s[i].hybrid_score.t = "num"
    \/ \A i, j \in 1..Len(s) : ~Before(s[i], s[j])

\* Array.prototype.sort: stable; with an inconsistent comparator the order
\* is implementation-defined
SortOutcomes(scored) ==
    IF ConsistentComparator(scored) THEN {StableSort(scored)} ELSE Reorderings(scored)

\* the arrays mergeResults can return
mergeResults(vectorResults, graphBoost, vectorWeight) ==
    SortOutcomes(ScoreHits(vectorResults, graphBoost, vectorWeight))

-----------------------------------------------------------------------------
(* router.post('/search') *)

\* array.slice(from, to) for 0 <= from <= to
Slice(s, from, to) ==
    SubSeq(s, from + 1, IF to < Len(s) THEN to ELSE Len(s))

\* Math.ceil(n / k) for n >= 0, k >= 1
CeilDiv(n, k) == (n + k - 1) \div k

SearchBodies ==
    [query : {Undefined, Some("a"), Some("constructor")},
     type : {"hybrid", "vector_only", "graph"},
     vector_weight : {7},
     graph_weight : {3},
     top_k : 1..MaxTopK,
     page : {1, 2}]

\* A search leaves both stores as they are, so whatever can follow it can be
\* done in its place: the search behaviours end with their search.
Settled == req.ep # "POST /search"

\* Paginate with offset = page * top_k
Paginate_PageFromZero(hybridResults, page, top_k) ==
    Slice(hybridResults, page * top_k, page * top_k + top_k)

Paginate(hybridResults, page, top_k) ==
    Slice(hybridResults, (page - 1) * top_k, (page - 1) * top_k + top_k)

\* the response of a search that did not throw
SearchResponse(body, vectorResults, graphScoreBoost, hybridResults) ==
    [status |-> 200,
     type |-> body.type,
     page |-> body.page,
     top_k |-> body.top_k,
     fused |-> hybridResults,
     total_pages |-> CeilDiv(Len(hybridResults), body.top_k),
     results |-> Paginate(hybridResults, body.page, body.top_k),
     vector_hits |-> Len(vectorResults),
     graph_boosts |-> Cardinality(DOMAIN graphScoreBoost)]

Search(body) ==
    LET request == [ep |-> "POST /search", body |-> body]
        searchCall == [op |-> "search", query |-> body.query, topK |-> body.top_k]
        graphCall == [op |-> "graphSearch", query |-> body.query]
        withGraph == body.type \in {"hybrid", "graph"}
    IN  /\ Settled
        /\ req' = request
        /\ route' = ""
        /\ UNCHANGED <<table, gnodes, gedges, writes>>
        /\ \/ \* vectorDB.search throws: no query text, or the index fails
              /\ calls' = <<[call |-> searchCall, threw |-> TRUE, ret |-> <<>>]>>
              /\ resp' = [status |-> 500]
           \/ /\ IsDef(body.query)
              /\ \E rows \in NearestRows(table, body.top_k) :
                 \E matches \in (IF withGraph THEN graphSearch(Stores, body.query[1]) \cup {{}}
                                 ELSE {{}}) :
                   LET vectorResults == FormatResults(rows)
                       graphScoreBoost == [i \in matches |-> GraphMatchScore * body.graph_weight]
                   IN  \E hybridResults \in
                            mergeResults(vectorResults, graphScoreBoost, body.vector_weight) :
                         /\ calls' =
                              <<[call |-> searchCall, threw |-> FALSE, ret |-> vectorResults]>>
                              \o (IF withGraph
                                  THEN <<[call |-> graphCall, threw |-> FALSE, ret |-> matches]>>
                                  ELSE <<>>)
                         /\ resp' = SearchResponse(body, vectorResults, graphScoreBoost,
                                                   hybridResults)

-----------------------------------------------------------------------------
(* The server after initializeServer(): an index holding the placeholder   *)
(* row, an empty graph, no request answered yet.                           *)

Init ==
    /\ table = <<InitRow>>
    /\ gnodes = [i \in Ids |-> NoNode]
    /\ gedges = {}
    /\ req = [ep |-> "none"]
    /\ calls = <<>>
    /\ route = ""
    /\ resp = [status |-> 0]
    /\ writes = 0

Next ==
    \/ \E body \in NodeBodies : CreateNode(body)
    \/ \E body \in EdgeBodies : CreateEdge(body)
    \/ \E data \in IngestPayloads : Ingest(data)
    \/ \E id \in Ids, body \in UpdateBodies : UpdateNode(id, body)
    \/ \E id \in Ids : DeleteNode(id)

Spec == Init /\ [][Next]_vars

\* the documents the search behaviours are seeded with through POST /nodes
SeedBodies ==
    [id : {Some(i) : i \in Ids}, text : {Some(TLong)}, mtype : {Undefined}]
    \cup {[id |-> Some("b"), text |-> Some(TShort), mtype |-> Undefined]}

SeedNode(body) == Settled /\ CreateNode(body)

NextSearch ==
    \/ \E body \in SeedBodies : SeedNode(body)
    \/ \E body \in SearchBodies : Search(body)

SpecSearch == Init /\ [][NextSearch]_vars

-----------------------------------------------------------------------------
(* decideRoute on its own: every payload, classified once *)

InitRoute ==
    /\ table = <<InitRow>>
    /\ gnodes = [i \in Ids |-> NoNode]
    /\ gedges = {}
    /\ req \in {[ep |-> "decideRoute", body |-> p] : p \in AllPayloads}
    /\ calls = <<>>
    /\ route = ""
    /\ resp = [status |-> 0]
    /\ writes = 0

Classify ==
    /\ req.ep = "decideRoute"
    /\ route = ""
    /\ route' = decideRoute(req.body)
    /\ UNCHANGED <<table, gnodes, gedges, req, calls, resp, writes>>

NextRoute == Classify

SpecRoute == InitRoute /\ [][NextRoute]_vars

-----------------------------------------------------------------------------
(* Reads of the vector store: the routes of setupVectorRoutes *)

\* the row limit of getAllDocuments and getDocument
ReadLimit == 1000

\* the ids a document is asked for by
ReadIds == Ids \cup {"init"}

ReadEndpoints == {"GET /vector/nodes/:id", "GET /vector/all", "POST /vector/search"}

\* no read has been answered yet: the reads end their behaviour, as a read
\* leaves both stores as they are
Unread == req.ep \notin ReadEndpoints

\* doc => ({id: doc.id, text: doc.text, metadata})
AsDocument(row) == [id |-> row.id, text |-> row.text]

\* VectorDB.getAllDocuments, given the rows table.search(...).limit(limit)
\* returned: the placeholder row is filtered out
getAllDocuments(rows) ==
    SelectSeq([i \in 1..Len(rows) |-> AsDocument(rows[i])], LAMBDA doc : doc.id # Some("init"))

\* VectorDB.getDocument: results.find(d => d.id === id), as a list of at most
\* one document (none: 'Document not found' is thrown)
getDocument(rows, id) ==
    LET found == SelectSeq(rows, LAMBDA d : d.id = Some(id))
    IN  IF found = <<>> THEN <<>> ELSE <<AsDocument(found[1])>>

\* the answer of a read route
Answer(request, entry, body) ==
    /\ req' = request
    /\ calls' = <<entry>>
    /\ resp' = body
    /\ route' = ""
    /\ UNCHANGED <<table, gnodes, gedges, writes>>

\* router.get('/nodes/:id') of the vector routes
GetDocument(id) ==
    LET request == [ep |-> "GET /vector/nodes/:id", id |-> id]
        call == [op |-> "getDocument", id |-> id]
    IN  /\ Unread
        /\ \/ \* the index fails: getDocument rethrows, the route answers 404
              Answer(request, [call |-> call, threw |-> TRUE, ret |-> <<>>, failed |-> TRUE],
                     [status |-> 404, documents |-> <<>>])
           \/ \E rows \in NearestRows(table, ReadLimit) :
                LET doc == getDocument(rows, id)
                IN  Answer(request,
                           [call |-> call, threw |-> doc = <<>>, ret |-> doc, failed |-> FALSE],
                           IF doc = <<>> THEN [status |-> 404, documents |-> <<>>]
                           ELSE [status |-> 200, documents |-> doc])

\* router.get('/all') of the vector routes
GetAllDocuments ==
    LET request == [ep |-> "GET /vector/all"]
        call == [op |-> "getAllDocuments"]
    IN  /\ Unread
        /\ \/ \* the index fails: getAllDocuments catches and returns []
              Answer(request, [call |-> call, threw |-> FALSE, ret |-> <<>>, failed |-> TRUE],
                     [status |-> 200, documents |-> <<>>])
           \/ \E rows \in NearestRows(table, ReadLimit) :
                Answer(request,
                       [call |-> call, threw |-> FALSE, ret |-> getAllDocuments(rows),
                        failed |-> FALSE],
                       [status |-> 200, documents |-> getAllDocuments(rows)])

\* router.post('/search') of the vector routes
VectorSearch(query, topK) ==
    LET request == [ep |-> "POST /vector/search", query_text |-> query, top_k |-> topK]
        call == [op |-> "search", query |-> query, topK |-> topK]
    IN  /\ Unread
        /\ IF ~TruthyAtom(query)
           THEN /\ req' = request
                /\ calls' = <<>>
                /\ resp' = [status |-> 400, documents |-> <<>>]
                /\ route' = ""
                /\ UNCHANGED <<table, gnodes, gedges, writes>>
           ELSE \/ Answer(request, [call |-> call, threw |-> TRUE, ret |-> <<>>, failed |-> TRUE],
                          [status |-> 500, documents |-> <<>>])
                \/ \E rows \in NearestRows(table, topK) :
                     LET hits == FormatResults(rows)
                     IN  Answer(request,
                                [call |-> call, threw |-> FALSE, ret |-> hits, failed |-> FALSE],
                                [status |-> 200,
                                 documents |-> [i \in 1..Len(hits) |->
                                                  [id |-> hits[i].docId, text |-> hits[i].text]]])

\* the documents the reads find: stored through POST /nodes
StoreNode(body) == Unread /\ CreateNode(body)

NextRead ==
    \/ \E body \in SeedBodies : StoreNode(body)
    \/ \E id \in ReadIds : GetDocument(id)
    \/ GetAllDocuments
    \/ \E query \in {Undefined, Some("a")}, topK \in 1..MaxTopK : VectorSearch(query, topK)

SpecRead == Init /\ [][NextRead]_vars

-----------------------------------------------------------------------------
(* Embedding Provider Adapter: backend/src/utils/embedding.js *)

MaxEmbedCalls == 2      \* generateEmbedding calls in one behaviour

EmbeddingDimensions == 384
AngleStep == 12345

\* text.charCodeAt(i) for the characters of the model's texts
CharCode(c) ==
    CASE c = "a" -> 97 [] c = "b" -> 98 [] c = "h" -> 104 [] c = "i" -> 105
      [] c = "n" -> 110 [] c = "o" -> 111 [] c = "r" -> 114 [] c = "s" -> 115
      [] c = "t" -> 116 [] c = "_" -> 95 [] c = " " -> 32 [] c = "\t" -> 9
      [] c = "#" -> 35 [] c = "." -> 46 [] c = "," -> 44 [] c = "!" -> 33
      [] c = "?" -> 63

\* A 32-bit integer is kept as its two 16-bit halves [hi, lo] of the
\* two's-complement pattern, so that no intermediate value leaves 32 bits.
WordSize == 65536
ZeroWords == [hi |-> 0, lo |-> 0]

\* hash << 5
ShiftLeft5(h) ==
    [hi |-> (h.hi * 32 + (h.lo * 32) \div WordSize) % WordSize,
     lo |-> (h.lo * 32) % WordSize]

\* a - b on 32 bits
SubWords(a, b) ==
    [hi |-> (a.hi - b.hi - (IF a.lo < b.lo THEN 1 ELSE 0)) % WordSize,
     lo |-> (a.lo - b.lo) % WordSize]

\* a + c on 32 bits, for a character code c
AddCode(a, c) ==
    [hi |-> (a.hi + (a.lo + c) \div WordSize) % WordSize,
     lo |-> (a.lo + c) % WordSize]

\* the signed value of the pattern, as hash & hash leaves it
ToInt32(h) ==
    IF h.hi >= WordSize \div 2 THEN (h.hi - WordSize) * WordSize + h.lo
    ELSE h.hi * WordSize + h.lo

\* the loop of generateMockEmbedding over the characters from position i:
\* hash = ((hash << 5) - hash) + char; hash = hash & hash
RECURSIVE HashFrom(_, _, _)
HashFrom(text, i, hash) ==
    IF i > Len(text) THEN ToInt32(hash)
    ELSE CHOOSE r \in {HashFrom(text, i + 1,
                                AddCode(SubWords(ShiftLeft5(h), h), CharCode(text[i]))) :
                           h \in {hash}} : TRUE

\* Math.sin(angle) * 0.5 + 0.5 for angle = (hash + i * 12345) % (2 * Math.PI):
\* a number fixed by hash and i, kept as the two terms of the sum
HalfSinePlusHalf(hash, offset) == [sine_of |-> <<hash, offset>>]

generateMockEmbedding(text, dimensions) ==
    CHOOSE embedding \in {[k \in 1..dimensions |-> HalfSinePlusHalf(hash, (k - 1) * AngleStep)] :
                             hash \in {HashFrom(text, 1, ZeroWords)}} : TRUE

\* Array.from(result.data) of the model: vectors the model leaves open
ModelVectors == {[k \in 1..EmbeddingDimensions |-> [model_value |-> v]] : v \in {1, 2}}

\* what a call of the loaded model does
ModelOutcomes == {[throws |-> TRUE, data |-> <<>>]} \cup
                 {[throws |-> FALSE, data |-> v] : v \in ModelVectors}
NoModelCall == [throws |-> FALSE, data |-> <<>>]

\* generateRealEmbedding without its try/catch around the model call
generateRealEmbedding_NoCatch(text, embeddingModel, outcome) ==
    IF embeddingModel = "null"
    THEN [threw |-> FALSE, vector |-> generateMockEmbedding(text, EmbeddingDimensions)]
    ELSE IF outcome.throws
         THEN [threw |-> TRUE, vector |-> <<>>]
         ELSE [threw |-> FALSE, vector |-> outcome.data]

\* embeddingModel is "null" or "loaded"; outcome is what the model call does
generateRealEmbedding(text, embeddingModel, outcome) ==
    IF embeddingModel = "null"
    THEN [threw |-> FALSE, vector |-> generateMockEmbedding(text, EmbeddingDimensions)]
    ELSE IF outcome.throws
         THEN [threw |-> FALSE, vector |-> generateMockEmbedding(text, EmbeddingDimensions)]
         ELSE [threw |-> FALSE, vector |-> outcome.data]

generateEmbedding(text, useReal, embeddingModel, outcome) ==
    IF useReal /\ embeddingModel # "null"
    THEN generateRealEmbedding(text, embeddingModel, outcome)
    ELSE [threw |-> FALSE, vector |-> generateMockEmbedding(text, EmbeddingDimensions)]

\* non-empty texts: the short ones over two letters, and the request texts
RECURSIVE TextsUpTo(_)
TextsUpTo(n) ==
    IF n = 0 THEN {<<>>}
    ELSE TextsUpTo(n - 1) \cup
         {Append(t, c) : t \in {u \in TextsUpTo(n - 1) : Len(u) = n - 1}, c \in {"a", "b"}}

EmbedTexts ==
    (TextsUpTo(3) \ {<<>>}) \cup {TShort, TBlank, T9, T10, TLong, TSym, TRun, THole}

\* the module after start: the model not loaded, a text to embed
InitEmbed ==
    /\ table = <<InitRow>>
    /\ gnodes = [i \in Ids |-> NoNode]
    /\ gedges = {}
    /\ req \in {[ep |-> "generateEmbedding", text |-> t, embeddingModel |-> "null"] :
                   t \in EmbedTexts}
    /\ calls = <<>>
    /\ route = ""
    /\ resp = [status |-> 0]
    /\ writes = 0

\* initializeRealEmbeddings: the pipeline loads, or the import fails
InitializeRealEmbeddings(loaded) ==
    /\ req.ep = "generateEmbedding"
    /\ req' = [req EXCEPT !.embeddingModel = IF loaded THEN "loaded" ELSE "null"]
    /\ UNCHANGED <<table, gnodes, gedges, calls, route, resp, writes>>

\* generateEmbedding(text, true), as VectorDB.addDocument and search call it
Embed(outcome) ==
    LET r == generateEmbedding(req.text, TRUE, req.embeddingModel, outcome)
        provider == IF req.embeddingModel = "null" THEN "not configured"
                    ELSE IF outcome.throws THEN "failing" ELSE "healthy"
    IN  /\ req.ep = "generateEmbedding"
        /\ Len(calls) < MaxEmbedCalls
        /\ calls' = Append(calls, [call |-> [op |-> "generateEmbedding", text |-> req.text],
                                   provider |-> provider, threw |-> r.threw, ret |-> r.vector])
        /\ resp' = [status |-> IF r.threw THEN 500 ELSE 200]
        /\ UNCHANGED <<table, gnodes, gedges, req, route, writes>>

NextEmbed ==
    \/ \E loaded \in BOOLEAN : InitializeRealEmbeddings(loaded)
    \/ \E outcome \in (IF req.embeddingModel = "null" THEN {NoModelCall} ELSE ModelOutcomes) :
          Embed(outcome)

SpecEmbed == InitEmbed /\ [][NextEmbed]_vars

-----------------------------------------------------------------------------
(* Bounded multi-hop traversal: router.get('/search/multi-hop') *)

HopRowLimit == 20
DefaultHops == 2
DefaultHopTypes == {"USES", "MENTIONS", "RELATED"}

\* the node at the other end of relationship e, seen from node at
OtherEnd(e, at) == IF e.source = Some(at) THEN e.target[1] ELSE e.source[1]

\* the matches of (start)-[r:types*1..n]-(related:Node) that leave node at
\* without the relationships in used: a path takes a relationship at most
\* once and in either direction
RECURSIVE PathsFrom(_, _, _, _, _)
PathsFrom(st, at, used, types, n) ==
    IF n = 0 THEN {}
    ELSE UNION {
            {<<e>>} \cup {<<e>> \o p : p \in PathsFrom(st, OtherEnd(e, at), used \cup {e}, types, n - 1)} :
            e \in {x \in st.gedges \ used :
                      /\ x.type \in types
                      /\ (x.source = Some(at) \/ x.target = Some(at))
                      /\ st.gnodes[OtherEnd(x, at)] # NoNode}}

\* the node a path from start ends at
RECURSIVE EndOf(_, _)
EndOf(start, path) ==
    IF path = <<>> THEN start ELSE EndOf(OtherEnd(Head(path), start), Tail(path))

\* the record of a path, as the route maps it
HopRow(start, path) ==
    [start |-> start,
     related |-> EndOf(start, path),
     hop_count |-> Len(path),
     relationships |-> [i \in 1..Len(path) |-> [type |-> path[i].type, weight |-> path[i].weight]],
     path_length |-> Len(path) + 1]

\* the subsets of S with k elements
RECURSIVE KSubsets(_, _)
KSubsets(S, k) ==
    IF k = 0 THEN {{}}
    ELSE IF Cardinality(S) < k THEN {}
    ELSE LET x == CHOOSE y \in S : TRUE
         IN  KSubsets(S \ {x}, k) \cup {T \cup {x} : T \in KSubsets(S \ {x}, k - 1)}

\* the elements of S, one after the other
RECURSIVE SeqOf(_)
SeqOf(S) ==
    IF S = {} THEN <<>>
    ELSE LET x == CHOOSE y \in S : TRUE IN <<x>> \o SeqOf(S \ {x})

\* ORDER BY hop_count ASC LIMIT 20 over the paths of at least h hops, room
\* rows being left: the shorter paths come first, and of the paths of the
\* hop count at which the limit falls any room are kept
RECURSIVE OrderAndLimit(_, _, _, _)
OrderAndLimit(paths, h, maxHops, room) ==
    IF h > maxHops \/ room = 0 THEN {<<>>}
    ELSE LET level == {p \in paths : Len(p) = h}
         IN  IF Cardinality(level) <= room
             THEN {SeqOf(level) \o rest :
                     rest \in OrderAndLimit(paths, h + 1, maxHops, room - Cardinality(level))}
             ELSE {SeqOf(kept) : kept \in KSubsets(level, room)}

\* multiHopRows without the LIMIT of the query
multiHopRows_NoLimit(st, start, hops, types) ==
    LET paths == IF st.gnodes[start] = NoNode THEN {}
                 ELSE PathsFrom(st, start, {}, types, hops)
    IN  {[i \in 1..Len(ps) |-> HopRow(start, ps[i])] :
            ps \in OrderAndLimit(paths, 1, hops, Cardinality(paths))}

\* the lists of rows the query of the route can return
multiHopRows(st, start, hops, types) ==
    LET paths == IF st.gnodes[start] = NoNode THEN {}
                 ELSE PathsFrom(st, start, {}, types, hops)
    IN  {[i \in 1..Len(ps) |-> HopRow(start, ps[i])] :
            ps \in OrderAndLimit(paths, 1, hops, HopRowLimit)}

\* graphs the traversal is run on, as POST /nodes and POST /edges build them
HopEdge(s, t, type, w) == [source |-> Some(s), target |-> Some(t), type |-> type, weight |-> Num(w)]

ChainGraph == {HopEdge("a", "b", "USES", 10), HopEdge("b", "constructor", "MENTIONS", 10)}
CycleGraph == {HopEdge("a", "b", "USES", 10), HopEdge("b", "constructor", "RELATED", 5),
               HopEdge("constructor", "a", "USES", 10), HopEdge("a", "b", "CREATED", 10),
               HopEdge("b", "a", "DEPLOYED", 10)}
DenseGraph == {HopEdge("a", "b", "USES", 10), HopEdge("a", "b", "USES", 5),
               HopEdge("a", "b", "MENTIONS", 10), HopEdge("b", "a", "RELATED", 10),
               HopEdge("a", "b", "CREATED", 10)}
DenseCycleGraph == {HopEdge("a", "b", "USES", 10), HopEdge("a", "b", "USES", 5),
                    HopEdge("b", "a", "MENTIONS", 10), HopEdge("a", "b", "CREATED", 10),
                    HopEdge("b", "constructor", "USES", 10),
                    HopEdge("b", "constructor", "RELATED", 10),
                    HopEdge("constructor", "a", "MENTIONS", 10),
                    HopEdge("constructor", "a", "USES", 5)}

HopGraphs == {{}, ChainGraph, CycleGraph, DenseGraph, DenseCycleGraph}

HopQueries ==
    [start_id : {Undefined} \cup {Some(i) : i \in Ids},
     hops : {Undefined, Some(1), Some(2), Some(3)},
     relationship_types : {Undefined, Some({"USES"}), Some({"MENTIONS", "CREATED"})}]

InitHop ==
    /\ table = <<InitRow>>
    /\ gedges \in HopGraphs
    /\ gnodes = [i \in Ids |->
                   IF \E e \in gedges : Some(i) \in {e.source, e.target} THEN "unknown" ELSE NoNode]
    /\ req = [ep |-> "none"]
    /\ calls = <<>>
    /\ route = ""
    /\ resp = [status |-> 0]
    /\ writes = 0

MultiHop(q) ==
    LET request == [ep |-> "GET /search/multi-hop", query |-> q]
        hops == IF IsDef(q.hops) THEN q.hops[1] ELSE DefaultHops
        types == IF IsDef(q.relationship_types) THEN q.relationship_types[1]
                 ELSE DefaultHopTypes
        call == [op |-> "multiHop", startId |-> q.start_id, hops |-> hops, types |-> types]
    IN  /\ req.ep = "none"
        /\ req' = request
        /\ route' = ""
        /\ UNCHANGED <<table, gnodes, gedges, writes>>
        /\ IF ~TruthyAtom(q.start_id)
           THEN calls' = <<>> /\ resp' = [status |-> 400]
           ELSE \/ \* the query fails
                   /\ calls' = <<[call |-> call, threw |-> TRUE, ret |-> <<>>, failed |-> TRUE]>>
                   /\ resp' = [status |-> 500]
                \/ \E rows \in multiHopRows(Stores, q.start_id[1], hops, types) :
                     /\ calls' = <<[call |-> call, threw |-> FALSE, ret |-> rows,
                                    failed |-> FALSE]>>
                     /\ resp' = [status |-> 200, hops |-> hops, paths |-> rows,
                                 total_paths |-> Len(rows)]

NextHop == \E q \in HopQueries : MultiHop(q)

SpecHop == InitHop /\ [][NextHop]_vars

-----------------------------------------------------------------------------
(* router.post('/ingest') step by step: the handler suspends at every      *)
(* awaited store call.  resp.phase is the point the handler has reached.   *)

\* req.body.data: a payload, or nothing
IngestData == {Undefined} \cup {Some(p) : p \in IngestPayloads}

\* AfterCall that goes on dispatching after a call that threw
AfterCall_IgnoreThrow(r) == "Dispatching"

\* where the handler is after an awaited store call returned r: a rejected
\* await jumps to the catch block
AfterCall(r) == IF r.threw THEN "Failed" ELSE "Dispatching"

\* the request arrives
Receive(data) ==
    /\ req.ep = "none"
    /\ req' = [ep |-> "POST /ingest", data |-> data, cleaned |-> Undefined]
    /\ resp' = [status |-> 0, phase |-> "Received"]
    /\ UNCHANGED <<table, gnodes, gedges, calls, route, writes>>

\* const cleaned = cleanData(data); if (!cleaned) return res.status(400).
\* cleanData throws on a body without data: data.nodes of undefined
Clean ==
    /\ req.ep = "POST /ingest"
    /\ resp.phase = "Received"
    /\ IF ~IsDef(req.data)
       THEN /\ resp' = [status |-> 500, phase |-> "Failed"]
            /\ UNCHANGED req
       ELSE IF ~IsDef(cleanData(req.data[1]))
       THEN /\ resp' = [status |-> 400, phase |-> "Rejected"]
            /\ UNCHANGED req
       ELSE /\ resp' = [status |-> 0, phase |-> "Cleaned"]
            /\ req' = [req EXCEPT !.cleaned = cleanData(req.data[1])]
    /\ UNCHANGED <<table, gnodes, gedges, calls, route, writes>>

\* const routeDecision = decideRoute(cleaned)
ClassifyCleaned ==
    /\ req.ep = "POST /ingest"
    /\ resp.phase = "Cleaned"
    /\ route' = decideRoute(req.cleaned[1])
    /\ resp' = [status |-> 0, phase |-> "Routed"]
    /\ UNCHANGED <<table, gnodes, gedges, req, calls, writes>>

\* the next awaited call of the dispatch; step is the backend failure of the
\* call, 0 for none
DispatchCall(step) ==
    LET plan == IngestPlan(req.cleaned[1], route)
        i == Len(calls) + 1
        r == StoreCall(Stores, plan[i], step)
    IN  /\ req.ep = "POST /ingest"
        /\ resp.phase \in {"Routed", "Dispatching"}
        /\ i <= Len(plan)
        /\ step \in {0} \cup Steps(plan[i])
        /\ table' = r.st.table
        /\ gnodes' = r.st.gnodes
        /\ gedges' = r.st.gedges
        /\ calls' = Append(calls, [call |-> plan[i], threw |-> r.threw, ret |-> r.ret,
                                   failed |-> step # 0])
        /\ resp' = [status |-> IF AfterCall(r) = "Failed" THEN 500 ELSE 0,
                    phase |-> AfterCall(r)]
        /\ UNCHANGED <<req, route, writes>>

\* res.json({success: true, routed_to: routeDecision, ...})
Complete ==
    /\ req.ep = "POST /ingest"
    /\ resp.phase \in {"Routed", "Dispatching"}
    /\ Len(calls) = Len(IngestPlan(req.cleaned[1], route))
    /\ resp' = [status |-> 200, phase |-> "Completed", routed_to |-> route]
    /\ UNCHANGED <<table, gnodes, gedges, req, calls, route, writes>>

NextIngest ==
    \/ \E data \in IngestData : Receive(data)
    \/ Clean
    \/ ClassifyCleaned
    \/ \E step \in 0..1 : DispatchCall(step)
    \/ Complete

\* the handler is one task that goes on whenever the call it awaits returns
SpecIngest == Init /\ [][NextIngest]_vars /\ WF_vars(NextIngest)

-----------------------------------------------------------------------------
(* Properties *)

IsIngest == req.ep = "POST /ingest"
SearchDone == req.ep = "POST /search" /\ resp.status = 200

TextFields == {"text", "content", "title", "description"}
RelationFields == {"nodes", "edges", "relationships", "parent_id", "children"}

\* an edge of an ingest payload, as the fields validateEdgeSchema reads
AsEdgeData(e) == [source |-> e.from, target |-> e.to, type |-> e.type, weight |-> e.weight]

\* the node or edge data of a write request fails the Schema Validator
InvalidData(r) ==
    CASE r.ep = "POST /nodes" -> ~validateNodeSchema(r.body)
      [] r.ep = "POST /edges" -> ~validateEdgeSchema(r.body)
      [] r.ep = "PUT /nodes/:id" ->
            ~validateNodeSchema([id |-> Some(r.id), text |-> r.body.text, mtype |-> r.body.mtype])
      [] r.ep = "POST /ingest" ->
            \/ /\ IsDef(r.body.edges)
               /\ \E i \in 1..Len(r.body.edges[1]) :
                     ~validateEdgeSchema(AsEdgeData(r.body.edges[1][i]))
            \/ /\ IsDef(r.body.nodes)
               /\ \E i \in 1..Len(r.body.nodes[1]) :
                     /\ TruthyAtom(r.body.nodes[1][i].type)
                     /\ r.body.nodes[1][i].type[1] \notin NodeTypes
      [] OTHER -> FALSE

\* C1: a write request whose node or edge data fails validation (missing
\* required field, type outside the allow-list, weight outside [0,1]) issues
\* no call to the vector store and none to the graph store, so it mutates
\* neither.
C1_InvalidWriteReachesNoStore == InvalidData(req) => calls = <<>>

NoLists(b) == ~TruthyLength(b.nodes) /\ ~TruthyLength(b.edges)
OnlyField(b, f) == \A g \in Fields : IsDef(b[g]) <=> g = f

\* C2: an ingest payload without a non-empty nodes/edges list whose cleaned
\* text has fewer than 10 characters is rejected (400) with no store call; a
\* payload whose only field is content with at least 10 cleaned characters
\* is not rejected, is routed VECTOR_ONLY and makes exactly one store call,
\* the vector store's addDocument, which decides between 200 and 500.
C2_NoiseRejectedContentStored ==
    IsIngest =>
        /\ (NoLists(req.body) /\ Len(CleanText(FirstTruthyText(req.body))) < 10)
              => (resp.status = 400 /\ calls = <<>> /\ route = "")
        /\ (OnlyField(req.body, "content") /\ Len(CleanText(req.body.content[1])) >= 10)
              => /\ route = "VECTOR_ONLY"
                 /\ Len(calls) = 1
                 /\ calls[1].call.op = "addDocument"
                 /\ calls[1].call.text = Some(CleanText(req.body.content[1]))
                 /\ resp.status = (IF calls[1].threw THEN 500 ELSE 200)

C2_Witness ==
    /\ IsIngest
    /\ OnlyField(req.body, "content")
    /\ resp.status = 200
    /\ route = "VECTOR_ONLY"
    /\ Len(table) = 2

\* the decision table over two flags
RouteTable(text, rel) ==
    IF text /\ rel THEN "BOTH"
    ELSE IF text THEN "VECTOR_ONLY"
    ELSE IF rel THEN "GRAPH_ONLY"
    ELSE "METADATA_ONLY"

TextFlag(b) == \E f \in TextFields : IsDef(b[f]) /\ b[f][1] # <<>>

\* C3 as stated: decideRoute is the decision table over hasText and
\* hasRelationships, which holds when any of nodes, edges, relationships,
\* children is present, an empty list included, or parent_id is given.
C3_PresenceDecidesRoute ==
    (req.ep = "decideRoute" /\ route # "") =>
        route = RouteTable(TextFlag(req.body),
                           \/ \E f \in RelationFields \ {"parent_id"} : IsDef(req.body[f])
                           \/ (IsDef(req.body.parent_id) /\ req.body.parent_id[1] # ""))

\* C3 amended: decideRoute is the decision table over hasText (any of text,
\* content, title, description is truthy) and hasRelationships, where nodes
\* and edges count only as non-empty lists and relationships, parent_id,
\* children count when truthy (an empty list is, an empty string is not).
C3_TruthinessDecidesRoute ==
    (req.ep = "decideRoute" /\ route # "") =>
        route = RouteTable(TextFlag(req.body),
                           \/ (IsDef(req.body.nodes) /\ req.body.nodes[1] # <<>>)
                           \/ (IsDef(req.body.edges) /\ req.body.edges[1] # <<>>)
                           \/ IsDef(req.body.relationships)
                           \/ (IsDef(req.body.parent_id) /\ req.body.parent_id[1] # "")
                           \/ IsDef(req.body.children))

C3_Witness ==
    /\ req.ep = "decideRoute"
    /\ route = "VECTOR_ONLY"
    /\ req.body.nodes = Some(<<>>)
    /\ req.body.edges = Undefined
    /\ \A f \in RelationFields \ {"nodes", "edges"} : ~IsDef(req.body[f])

NoTextNoRelations(b) ==
    /\ \A f \in TextFields : ~IsDef(b[f])
    /\ \A f \in RelationFields : ~IsDef(b[f])

\* C4 as stated: an ingest payload with neither a text-like field nor a
\* relationship field is accepted, routed METADATA_ONLY, with no store call.
C4_MetadataOnlyAccepted ==
    (IsIngest /\ NoTextNoRelations(req.body)) =>
        (resp.status = 200 /\ route = "METADATA_ONLY" /\ calls = <<>>)

\* C4 amended: such a payload is rejected as noise: the response is the 400
\* error, no route decision is computed and no store call is made.
C4_MetadataOnlyRejected ==
    (IsIngest /\ NoTextNoRelations(req.body)) =>
        (resp.status = 400 /\ route = "" /\ calls = <<>>)

C4_Witness ==
    /\ IsIngest
    /\ NoTextNoRelations(req.body)
    /\ resp.status = 400
    /\ writes = 1

\* the first non-empty of text, content, title, description
FirstNonEmpty(b) ==
    IF IsDef(b.text) /\ b.text[1] # <<>> THEN b.text[1]
    ELSE IF IsDef(b.content) /\ b.content[1] # <<>> THEN b.content[1]
    ELSE IF IsDef(b.title) /\ b.title[1] # <<>> THEN b.title[1]
    ELSE IF IsDef(b.description) /\ b.description[1] # <<>> THEN b.description[1]
    ELSE <<>>

\* C5: for an ingest payload without non-empty nodes/edges lists, the text
\* cleaned and stored is the first non-empty of text, content, title,
\* description; when it has at least 10 cleaned characters the payload is
\* not rejected and that cleaned text is what addDocument is given, and a
\* payload whose only text-like field is description is routed VECTOR_ONLY.
C5_FirstNonEmptyTextStored ==
    (IsIngest /\ NoLists(req.body) /\ Len(CleanText(FirstNonEmpty(req.body))) >= 10) =>
        /\ resp.status # 400
        /\ Len(calls) >= 1
        /\ calls[1].call.op = "addDocument"
        /\ calls[1].call.text = Some(CleanText(FirstNonEmpty(req.body)))
        /\ OnlyField(req.body, "description") => route = "VECTOR_ONLY"

\* the boost the claim gives a hit: graphWeight times the match score when
\* the graph keyword query returned the hit's id, else 0
ExpectedBoost(docId, matched, graph_weight) ==
    IF docId \in matched THEN graph_weight * GraphMatchScore ELSE 0

\* the return values of the two store queries of the search just answered
VectorHits == calls[1].ret
GraphMatches == IF Len(calls) >= 2 THEN calls[2].ret ELSE {}

\* C6: in a hybrid search the fused list holds exactly the vector hits, and
\* the fused score of every hit is similarity * vectorWeight + boost, boost
\* being graphWeight times the graph match score of the hit's id when the
\* graph keyword query matched it and 0 otherwise.
C6_FusedScoreOfEveryHit ==
    (SearchDone /\ req.body.type = "hybrid") =>
        /\ Len(resp.fused) = Len(VectorHits)
        /\ \A i \in 1..Len(resp.fused) : \E j \in 1..Len(VectorHits) :
              /\ VectorHits[j].rank = resp.fused[i].rank
              /\ VectorHits[j].docId = resp.fused[i].docId
              /\ VectorHits[j].similarity = resp.fused[i].similarity
        /\ \A i \in 1..Len(resp.fused) :
              resp.fused[i].hybrid_score =
                 Num(resp.fused[i].similarity * req.body.vector_weight
                     + ExpectedBoost(resp.fused[i].docId[1], GraphMatches,
                                     req.body.graph_weight))

\* a >= b on two scores, as JavaScript compares them
ScoreAtLeast(a, b) == a.t = "num" /\ b.t = "num" /\ a.n >= b.n

\* C7: the fused list is ordered by non-increasing hybrid score, and hits of
\* equal score keep the relative order they had in the vector-hit list.
C7_FusedOrderedAndStable ==
    SearchDone =>
        \A i, j \in 1..Len(resp.fused) : i < j =>
            /\ ScoreAtLeast(resp.fused[i].hybrid_score, resp.fused[j].hybrid_score)
            /\ resp.fused[i].hybrid_score = resp.fused[j].hybrid_score
                  => resp.fused[i].rank < resp.fused[j].rank

OneToTwelve == [i \in 1..12 |-> i]

C9_VectorOnlySkipsGraph ==
    [][(req'.ep = "POST /search" /\ resp'.status = 200 /\ req'.body.type = "vector_only") =>
          /\ \A i \in 1..Len(calls') : calls'[i].call.op \notin GraphOps
          /\ \A i \in 1..Len(resp'.results) :
                resp'.results[i].hybrid_score =
                   Num(resp'.results[i].similarity * req'.body.vector_weight)
          /\ UNCHANGED <<table, gnodes, gedges>>]_vars

\* type in the relation allow-list and 0 <= weight <= 1
ValidEdge(type, weight) ==
    /\ type \in EdgeTypes
    /\ weight.t = "num"
    /\ 0 <= weight.n
    /\ weight.n <= 10

\* C10: every edge passed to the graph store's addEdge, and so every edge the
\* graph store holds, has a type in the relation allow-list and a weight w
\* with 0 <= w <= 1, 1 when absent.
C10_EdgesWithinSchema ==
    /\ \A i \in 1..Len(calls) :
          calls[i].call.op = "addEdge" =>
             /\ IsDef(calls[i].call.type)
             /\ ValidEdge(calls[i].call.type[1],
                          IF IsDef(calls[i].call.weight) THEN calls[i].call.weight[1]
                          ELSE Num(10))
    /\ \A e \in gedges : ValidEdge(e.type, e.weight)

\* the type addNode stores for a node that was given none
NoTypeGiven == "unknown"

\* C11: whatever node, update and ingest requests were served, every node the
\* graph store holds has a type of the node allow-list, or none (which the
\* store records as 'unknown').
C11_NodeTypesWithinAllowList ==
    \A i \in DOMAIN gnodes :
        gnodes[i] # NoNode => gnodes[i] \in NodeTypes \cup {NoTypeGiven}

\* C13: when a call to a store fails during a request, the call is not issued
\* again and the request ends with an error response: no request reports
\* success after one of its store calls failed.
C13_StoreFailureEndsInError ==
    \A i \in 1..Len(calls) :
        calls[i].failed =>
            /\ resp.status >= 400
            /\ \A j \in 1..Len(calls) : j # i => calls[j].call # calls[i].call

\* the sub-operations ingest dispatch has for the payload of req
DispatchPlan == IngestPlan(cleanData(req.body)[1], route)
Dispatched == IsIngest /\ resp.status \in {200, 500}

\* no call of the request takes back an earlier one
NoCompensation ==
    \A i \in 1..Len(calls) :
        calls[i].call.op \notin {"deleteDocument", "updateDocument", "detachDelete"}

\* what the calls that succeeded wrote is in the stores
SucceededWritesKept ==
    \A i \in 1..Len(calls) :
        (~calls[i].threw) =>
            /\ calls[i].call.op = "addDocument" =>
                  \E k \in 1..Len(table) :
                      /\ table[k].id = calls[i].call.id
                      /\ table[k].text = calls[i].call.text[1]
            /\ calls[i].call.op = "addNode" => gnodes[calls[i].call.id[1]] # NoNode

\* C15 as stated: in ingest dispatch the failure of one sub-operation undoes
\* none that succeeded and does not keep the remaining ones from being
\* attempted: every sub-operation of the request is attempted.
C15_EverySubOperationAttempted ==
    Dispatched =>
        /\ NoCompensation
        /\ SucceededWritesKept
        /\ Len(calls) = Len(DispatchPlan)

\* C15 amended: the failure of one sub-operation undoes none that succeeded
\* (no compensating call is issued, what they wrote stays), ends the dispatch
\* there and answers 500: the sub-operations after the failed one are not
\* attempted; without a failure all are attempted, in order, and the answer
\* is 200.
C15_FailureStopsDispatchKeepsWrites ==
    Dispatched =>
        /\ NoCompensation
        /\ SucceededWritesKept
        /\ Len(calls) <= Len(DispatchPlan)
        /\ \A i \in 1..Len(calls) :
              /\ calls[i].call = DispatchPlan[i]
              /\ calls[i].threw => i = Len(calls)
        /\ resp.status = 500 <=> (calls # <<>> /\ calls[Len(calls)].threw)
        /\ resp.status = 200 => Len(calls) = Len(DispatchPlan)

C15_Witness ==
    /\ IsIngest
    /\ resp.status = 500
    /\ Len(DispatchPlan) = 3
    /\ Len(calls) = 2
    /\ calls[1].call.op = "addNode" /\ ~calls[1].threw
    /\ calls[2].failed /\ calls[2].threw
    /\ gnodes["a"] # NoNode
    /\ gnodes["b"] = NoNode

\* C17: the vector store holds at most one document per id, and after an
\* update of an id has completed it holds exactly one document of that id.
C17_DocumentIdsUnique ==
    /\ \A i, j \in 1..Len(table) :
          (i < j /\ IsDef(table[i].id)) => table[i].id # table[j].id
    /\ (req.ep = "PUT /nodes/:id" /\ resp.status = 200) =>
          Cardinality({k \in 1..Len(table) : table[k].id = Some(req.id)}) = 1

\* the example payload: a title and a non-empty nodes list, nothing else
TitleAndNodes(b) ==
    /\ \A f \in Fields : IsDef(b[f]) <=> f \in {"title", "nodes"}
    /\ Len(CleanText(b.title[1])) >= 10
    /\ Len(b.nodes[1]) > 0

\* C20: whenever ingest dispatch calls addDocument its text argument is a
\* non-empty cleaned string, and a payload with a title and a non-empty nodes
\* list is accepted, routed BOTH and dispatched to both stores.
C20_AddDocumentGetsCleanedText ==
    IsIngest =>
        /\ \A i \in 1..Len(calls) :
              calls[i].call.op = "addDocument" =>
                 /\ IsDef(calls[i].call.text)
                 /\ calls[i].call.text[1] # <<>>
                 /\ calls[i].call.text[1] = CleanText(calls[i].call.text[1])
        /\ (TitleAndNodes(req.body) /\ \A i \in 1..Len(calls) : ~calls[i].failed) =>
              /\ resp.status = 200
              /\ route = "BOTH"
              /\ \E i \in 1..Len(calls) : calls[i].call.op = "addDocument" /\ ~calls[i].threw
              /\ \E i \in 1..Len(calls) : calls[i].call.op = "addNode" /\ ~calls[i].threw

\* C18: in a search response the i-th returned hit has rank i, in the list the
\* vector search returns (placeholder rows filtered out) and in the list the
\* hybrid search returns (re-ordered by fused score).
C18_RankIsPosition ==
    SearchDone =>
        /\ \A i \in 1..Len(VectorHits) : VectorHits[i].rank = i
        /\ \A i \in 1..Len(resp.results) : resp.results[i].rank = i

ReadDone == req.ep \in ReadEndpoints /\ resp.status = 200

\* C12: no read of the vector store (search, getAllDocuments, getDocument
\* and the routes built on them) returns the placeholder row of id 'init'.
C12_PlaceholderNeverReturned ==
    ReadDone =>
        /\ \A i \in 1..Len(resp.documents) : resp.documents[i].id # Some("init")
        /\ \A i \in 1..Len(calls[1].ret) :
              /\ "id" \in DOMAIN calls[1].ret[i] => calls[1].ret[i].id # Some("init")
              /\ "docId" \in DOMAIN calls[1].ret[i] => calls[1].ret[i].docId # Some("init")

\* the deterministic hash embedding of a text whose 32-bit rolling hash is h
FallbackVector(h) == [k \in 1..384 |-> [sine_of |-> <<h, (k - 1) * 12345>>]]

\* the 32-bit rolling hashes (code * 31^(n-k) summed, wrapped to 32 bits
\* signed) of some texts
KnownHashes ==
    (<<"a">> :> 97) @@ (<<"a", "b">> :> 3105) @@ (TShort :> 109413500)
    @@ (T9 :> 1082593249) @@ (T10 :> -799347552) @@ (TLong :> 626151616)
    @@ (TBlank :> 1001)

\* C14: for a non-empty text and any state of the embedding provider,
\* generateEmbedding(text, true) returns a vector and never raises; when the
\* provider is not configured or fails on the call, the vector is
\* generateMockEmbedding(text): 384 values fixed by the text alone, the same
\* on every call.
C14_EmbeddingNeverRaises ==
    req.ep = "generateEmbedding" =>
        \A i \in 1..Len(calls) :
            /\ ~calls[i].threw
            /\ calls[i].ret # <<>>
            /\ calls[i].provider \in {"not configured", "failing"} =>
                  /\ Len(calls[i].ret) = 384
                  /\ calls[i].ret = generateMockEmbedding(req.text, 384)
                  /\ req.text \in DOMAIN KnownHashes =>
                        calls[i].ret = FallbackVector(KnownHashes[req.text])
                  /\ \A j \in 1..Len(calls) :
                        calls[j].provider \in {"not configured", "failing"} =>
                            calls[j].ret = calls[i].ret

C14_Witness ==
    /\ req.ep = "generateEmbedding"
    /\ req.text = T10
    /\ Len(calls) = 2
    /\ calls[1].provider = "failing"
    /\ calls[2].provider = "not configured"
    /\ calls[1].ret = calls[2].ret
    /\ calls[1].ret[1].sine_of[1] < 0

HopDone == req.ep = "GET /search/multi-hop" /\ resp.status = 200

\* the relationship types and the hop limit a traversal was asked for
AskedTypes ==
    IF IsDef(req.query.relationship_types) THEN req.query.relationship_types[1]
    ELSE {"USES", "MENTIONS", "RELATED"}
AskedHops == IF IsDef(req.query.hops) THEN req.query.hops[1] ELSE 2

\* C16: on any graph, dense and cyclic ones included, from any start node and
\* for any hop limit H, the traversal returns at most 20 rows, every row has
\* 1 <= hop_count <= H and relationships of the allowed types only, and the
\* rows are in non-decreasing order of hop_count.
C16_TraversalBounded ==
    HopDone =>
        /\ Len(resp.paths) <= 20
        /\ resp.total_paths = Len(resp.paths)
        /\ \A i \in 1..Len(resp.paths) :
              /\ 1 <= resp.paths[i].hop_count
              /\ resp.paths[i].hop_count <= AskedHops
              /\ Len(resp.paths[i].relationships) = resp.paths[i].hop_count
              /\ \A k \in 1..Len(resp.paths[i].relationships) :
                    resp.paths[i].relationships[k].type \in AskedTypes
        /\ \A i, j \in 1..Len(resp.paths) :
              i < j => resp.paths[i].hop_count <= resp.paths[j].hop_count

C16_Witness ==
    /\ HopDone
    /\ gedges = DenseGraph
    /\ AskedHops = 3
    /\ Len(resp.paths) = 20
    /\ resp.paths[1].hop_count = 1
    /\ resp.paths[20].hop_count = 3
    /\ Cardinality(PathsFrom(Stores, req.query.start_id[1], {}, AskedTypes, 3)) > 20

Phase == IF "phase" \in DOMAIN resp THEN resp.phase ELSE "Idle"

\* the steps of the state machine of the specification
ClaimedSteps ==
    {<<"Idle", "Received">>, <<"Received", "Rejected">>, <<"Received", "Cleaned">>,
     <<"Cleaned", "Routed">>, <<"Routed", "Dispatching">>, <<"Dispatching", "Dispatching">>,
     <<"Routed", "Completed">>, <<"Dispatching", "Completed">>}

\* those, and the ends in the catch block
ActualSteps ==
    ClaimedSteps \cup {<<"Received", "Failed">>, <<"Routed", "Failed">>,
                       <<"Dispatching", "Failed">>}

\* the route decision is computed once, after cleaning and before the first
\* store call, and a rejected run made no store call
RouteOnceBeforeStores ==
    /\ [][route' # route =>
            /\ route = ""
            /\ Phase = "Cleaned"
            /\ Phase' = "Routed"
            /\ calls = <<>>]_vars
    /\ [](calls # <<>> => route # "")
    /\ [](Phase = "Rejected" => (calls = <<>> /\ route = "" /\ resp.status = 400))

\* the request has a data payload
CarriesData == "data" \in DOMAIN req /\ IsDef(req.data)

\* C19 as stated: an ingest request goes Received, Clean, Rejected or
\* Cleaned, Classify, Routed, Dispatch, Completed, and ends in exactly one of
\* Rejected and Completed; the route decision is computed once, after
\* cleaning and before the first store call; a rejected run makes no store
\* call.
C19_EndsRejectedOrCompleted ==
    /\ [][(CarriesData' => <<Phase, Phase'>> \in ClaimedSteps)]_vars
    /\ (Phase = "Received" /\ CarriesData) ~> (Phase \in {"Rejected", "Completed"})
    /\ RouteOnceBeforeStores

\* C19 amended: the request ends in exactly one of Rejected (400, nothing
\* stored), Completed (200, every call of the dispatch returned) and Failed
\* (500: cleaning threw, or a call of the dispatch threw and ended it, the
\* calls before it staying done); the rest as stated.
C19_EndsRejectedCompletedOrFailed ==
    /\ [][(<<Phase, Phase'>> \in ActualSteps)]_vars
    /\ (Phase = "Received") ~> (Phase \in {"Rejected", "Completed", "Failed"})
    /\ RouteOnceBeforeStores
    /\ [](Phase = "Completed" =>
            (resp.status = 200 /\ \A i \in 1..Len(calls) : ~calls[i].threw))
    /\ [](Phase = "Failed" =>
            /\ resp.status = 500
            /\ calls = <<>> \/ calls[Len(calls)].threw
            /\ \A i \in 1..Len(calls) : calls[i].threw => i = Len(calls))

C19_Witness ==
    /\ Phase = "Failed"
    /\ route = "GRAPH_ONLY"
    /\ Len(calls) = 2
    /\ ~calls[1].threw
    /\ calls[2].threw
    /\ gnodes["a"] # NoNode

\* the documents of the vector store, the placeholder row not counted
StoredDocuments == {k \in 1..Len(table) : table[k].id # Some("init")}

\* C21: POST /search queries the vector store with limit top_k, so the fused
\* list never has more than top_k hits: for a request of page >= 2 the
\* results are empty, and total_pages is at most 1, however many documents
\* the vector store holds.
C21_SearchNeverPastFirstPage ==
    SearchDone =>
        /\ calls[1].call.op = "search"
        /\ calls[1].call.topK = req.body.top_k
        /\ Len(VectorHits) <= req.body.top_k
        /\ Len(resp.fused) <= req.body.top_k
        /\ resp.total_pages <= 1
        /\ req.body.page >= 2 => resp.results = <<>>

C21_Witness ==
    /\ SearchDone
    /\ Cardinality(StoredDocuments) > req.body.top_k
    /\ req.body.page = 2
    /\ Len(resp.fused) = req.body.top_k
    /\ resp.results = <<>>
    /\ resp.total_pages = 1

====
